---- MODULE Spec2Model ----
(***************************************************************************)
(* A model of allot, a single-dispatch generic function whose              *)
(* implementations may decline by returning Pass (src/allot.py).           *)
(*                                                                         *)
(* The state is the registry of one generic function (an insertion-ordered *)
(* dict from type to implementation), the table of virtual subclass        *)
(* declarations of the abstract base classes (ABCMeta.register), and the   *)
(* position of the invocation in progress: allot.dispatch is a generator,  *)
(* so an invocation alternates between resuming the generator and calling  *)
(* the implementation it yielded.                                          *)
(***************************************************************************)
EXTENDS Integers, Sequences, FiniteSets, TLC

VARIABLES registry, virt, pc, inv, invoked, outcome

vars == <<registry, virt, pc, inv, invoked, outcome>>

(***************************************************************************)
(* Bounds of the model.                                                    *)
(***************************************************************************)
\* registry keys besides the root type
MaxKeys == 3
\* virtual subclass declarations
MaxVirt == 2
\* registry items that hold the second implementation written for their type
MaxAlt == 1

(***************************************************************************)
(* Sequence helpers.                                                       *)
(***************************************************************************)
InSeq(x, s) == \E i \in 1..Len(s) : s[i] = x

Range(s) == {s[i] : i \in 1..Len(s)}

MinOf(S) == CHOOSE x \in S : \A y \in S : x <= y

MaxOf(S) == CHOOSE x \in S : \A y \in S : x >= y

RECURSIVE Flatten(_)
Flatten(ss) == IF ss = <<>> THEN <<>> ELSE Head(ss) \o Flatten(Tail(ss))

(***************************************************************************)
(* The type system the generic function is used with: a plain class P with *)
(* a subclass Q, two unrelated abstract base classes V1 and V2, and an     *)
(* abstract base class D that inherits from both.                          *)
(***************************************************************************)
None == "None"

\* None where an implementation is expected
NoFunc == <<>>

Root == "object"

\* classes in order of creation
ClassOrder == <<"object", "P", "Q", "V1", "V2", "D">>

Types == Range(ClassOrder)

\* cls.__bases__
Bases(c) ==
  CASE c = "object" -> <<>>
    [] c = "P" -> <<"object">>
    [] c = "Q" -> <<"P">>
    [] c = "V1" -> <<"object">>
    [] c = "V2" -> <<"object">>
    [] c = "D" -> <<"V1", "V2">>

\* classes created with the ABCMeta metaclass: hasattr(c, '__abstractmethods__')
ABCs == {"V1", "V2", "D"}

\* cls.__subclasses__(): the direct true subclasses, in order of creation
SubclassTable ==
  [c \in Types |-> SelectSeq(ClassOrder, LAMBDA s : InSeq(c, Bases(s)))]

Subclasses(c) == SubclassTable[c]

(***************************************************************************)
(* functools._c3_merge: the C3 merge of a list of sequences.  The result   *)
(* <<Inconsistent>> stands for RuntimeError("Inconsistent hierarchy").     *)
(***************************************************************************)
Inconsistent == "Inconsistent hierarchy"

RECURSIVE c3_merge_loop(_, _)
c3_merge_loop(sequences, result) ==
  LET seqs == SelectSeq(sequences, LAMBDA s : s # <<>>)
      rejected(c) == \E j \in 1..Len(seqs) : InSeq(c, Tail(seqs[j]))
      good == {i \in 1..Len(seqs) : ~rejected(Head(seqs[i]))}
  IN IF seqs = <<>> THEN result
     ELSE IF good = {} THEN <<Inconsistent>>
     ELSE LET candidate == Head(seqs[MinOf(good)])
          IN c3_merge_loop(
               [j \in 1..Len(seqs) |->
                  IF Head(seqs[j]) = candidate THEN Tail(seqs[j]) ELSE seqs[j]],
               Append(result, candidate))

c3_merge(sequences) ==
  IF \E j \in 1..Len(sequences) : InSeq(Inconsistent, sequences[j])
  THEN <<Inconsistent>>
  ELSE c3_merge_loop(sequences, <<>>)

\* the built-in C3 linearization of the true bases
RECURSIVE type_mro(_)
type_mro(c) ==
  LET bs == Bases(c)
  IN c3_merge(<<<<c>>>> \o [i \in 1..Len(bs) |-> type_mro(bs[i])] \o <<bs>>)

\* cls.__mro__, computed when the class is created
MroTable == [c \in Types |-> type_mro(c)]

Mro(c) == MroTable[c]

(***************************************************************************)
(* issubclass(c, t).  For a plain class t it is membership in c.__mro__;   *)
(* for an abstract base class t, ABCMeta.__subclasscheck__ also accepts    *)
(* the subclasses of the classes registered on t and of t's subclasses.    *)
(* vr is the table of declarations, a set of pairs <<abc, cls>>.           *)
(***************************************************************************)
RECURSIVE issubclass(_, _, _)
issubclass(vr, c, t) ==
  \/ InSeq(t, Mro(c))
  \/ /\ t \in ABCs
     /\ \/ \E r \in Types : <<t, r>> \in vr /\ issubclass(vr, c, r)
        \/ \E s \in Range(Subclasses(t)) : issubclass(vr, c, s)

(***************************************************************************)
(* functools._c3_mro: the C3 linearization of cls extended with the        *)
(* abstract base classes of abcs, each inserted at the class that          *)
(* introduces it.                                                          *)
(***************************************************************************)
RECURSIVE c3_mro(_, _, _)
c3_mro(vr, cls, abcs) ==
  LET bases == Bases(cls)
      explicit == {i \in 1..Len(bases) : bases[i] \in ABCs}
      boundary == IF explicit = {} THEN 0 ELSE MaxOf(explicit)
      explicit_bases == SubSeq(bases, 1, boundary)
      other_bases == SubSeq(bases, boundary + 1, Len(bases))
      abstract_bases ==
        SelectSeq(abcs, LAMBDA base :
          /\ issubclass(vr, cls, base)
          /\ ~\E i \in 1..Len(bases) : issubclass(vr, bases[i], base))
      rest == SelectSeq(abcs, LAMBDA base : ~InSeq(base, abstract_bases))
      mros(bs) == [i \in 1..Len(bs) |-> c3_mro(vr, bs[i], rest)]
  IN c3_merge(<<<<cls>>>>
              \o mros(explicit_bases) \o mros(abstract_bases) \o mros(other_bases)
              \o <<explicit_bases, abstract_bases, other_bases>>)

(***************************************************************************)
(* list.sort(key=len, reverse=True): a stable sort, longest first.         *)
(***************************************************************************)
RECURSIVE sort_by_len(_, _)
sort_by_len(todo, done) ==
  IF todo = <<>> THEN done
  ELSE LET x == Head(todo)
           k == Cardinality({i \in 1..Len(done) : Len(done[i]) >= Len(x)})
       IN sort_by_len(Tail(todo),
                      SubSeq(done, 1, k) \o <<x>> \o SubSeq(done, k + 1, Len(done)))

\* mro.append(subcls) for every subcls of subs that is not in mro yet
RECURSIVE append_new(_, _)
append_new(mro, subs) ==
  IF subs = <<>> THEN mro
  ELSE append_new(IF InSeq(Head(subs), mro) THEN mro ELSE Append(mro, Head(subs)),
                  Tail(subs))

(***************************************************************************)
(* functools._compose_mro(cls, types): the linearization of cls with the   *)
(* relevant abstract base classes among types (the registry's keys, in     *)
(* the registry's order).                                                  *)
(***************************************************************************)
RECURSIVE compose_loop(_, _, _, _, _)
compose_loop(vr, cls, types, n, mro) ==
  IF n > Len(types) THEN mro
  ELSE LET typ == types[n]
           bases == Range(Mro(cls))
           type_set == Range(types)
           subs == SelectSeq(Subclasses(typ), LAMBDA sub :
                     sub \notin bases /\ issubclass(vr, cls, sub))
           found == sort_by_len(
                      [i \in 1..Len(subs) |->
                         SelectSeq(Mro(subs[i]), LAMBDA s : s \in type_set)],
                      <<>>)
       IN compose_loop(vr, cls, types, n + 1,
                       IF found = <<>> THEN Append(mro, typ)
                       ELSE append_new(mro, Flatten(found)))

compose_mro(vr, cls, keys) ==
  LET bases == Range(Mro(cls))
      is_related(typ) == typ \notin bases /\ typ \in Types /\ issubclass(vr, cls, typ)
      related == SelectSeq(keys, is_related)
      is_strict_base(typ) ==
        \E i \in 1..Len(related) : typ # related[i] /\ InSeq(typ, Mro(related[i]))
      types == SelectSeq(related, LAMBDA typ : ~is_strict_base(typ))
  IN c3_mro(vr, cls, compose_loop(vr, cls, types, 1, <<>>))

(***************************************************************************)
(* How the generic function is used: the types implementations are         *)
(* registered for, the virtual subclass declarations made, and the types   *)
(* of the objects it is called with.                                       *)
(***************************************************************************)
\* the types implementations are registered for
RegTypes == {"object", "P", "V1", "V2", "D"}

\* the declarations abc.register(cls) that are made
VirtPairs == {<<"V1", "P">>, <<"V2", "P">>, <<"D", "P">>, <<"V1", "Q">>}

\* the types of the objects g(obj) is called with
Receivers == {"Q", "D"}

\* the types of the objects the generic method C().m(obj) is called with
MethodReceivers == {"Q"}

(***************************************************************************)
(* The registry: a dict, modelled as the sequence of its items in          *)
(* insertion order.                                                        *)
(***************************************************************************)
\* registry.keys()
keys(reg) == [i \in 1..Len(reg) |-> reg[i].key]

\* typ in registry
contains(reg, typ) == \E i \in 1..Len(reg) : reg[i].key = typ

\* registry.get(typ)
get(reg, typ) ==
  IF contains(reg, typ)
  THEN reg[CHOOSE i \in 1..Len(reg) : reg[i].key = typ].func
  ELSE NoFunc

\* registry[cls] = func: an existing key keeps its place
setitem(reg, cls, func) ==
  IF contains(reg, cls)
  THEN [i \in 1..Len(reg) |->
          IF reg[i].key = cls THEN [key |-> cls, func |-> func] ELSE reg[i]]
  ELSE Append(reg, [key |-> cls, func |-> func])

(***************************************************************************)
(* compose_mro is a pure function of the class, the keys and the           *)
(* declarations.  Linearization holds its values, each computed once (the  *)
(* @@ makes TLC build the table instead of keeping the expression).        *)
(***************************************************************************)
KeySeqs ==
  {ks \in UNION {[1..n -> RegTypes] : n \in 1..Cardinality(RegTypes)} :
     /\ ks[1] = Root
     /\ \A i, j \in 1..Len(ks) : i # j => ks[i] # ks[j]}

Linearization ==
  [cls \in Receivers |->
     [ks \in KeySeqs |->
        [vr \in SUBSET VirtPairs |-> compose_mro(vr, cls, ks)] @@ <<>>] @@ <<>>]
  @@ <<>>

(***************************************************************************)
(* allot.dispatch, a generator.  Its frame is the linearization mro        *)
(* computed when it starts, the index i of the type the loop is at and     *)
(* match; the registry is read again each time the generator runs on.      *)
(***************************************************************************)
\* ambiguous that never refuses
ambiguous_never(reg, vr, cls, match, typ) == FALSE

\* ambiguous without the two tests of cls.__mro__
ambiguous_no_mro(reg, vr, cls, match, typ) ==
  /\ contains(reg, typ)
  /\ ~issubclass(vr, match, typ)

\* the test of dispatch that refuses two unrelated implicit ABCs
ambiguous(reg, vr, cls, match, typ) ==
  /\ contains(reg, typ)
  /\ ~InSeq(typ, Mro(cls))
  /\ ~InSeq(match, Mro(cls))
  /\ ~issubclass(vr, match, typ)

\* dispatch_loop with match assigned before the yield instead of after it
RECURSIVE dispatch_loop_early(_, _, _, _, _, _)
dispatch_loop_early(reg, vr, cls, mro, i, match) ==
  IF i > Len(mro)
  THEN [kind |-> "yield", func |-> get(reg, match), i |-> i, match |-> match]
  ELSE LET next == IF contains(reg, mro[i]) THEN mro[i] ELSE match
       IN IF match # None
          THEN IF ambiguous(reg, vr, cls, match, mro[i])
               THEN [kind |-> "raise", typ |-> mro[i], i |-> i, match |-> match]
               ELSE [kind |-> "yield", func |-> get(reg, next), i |-> i,
                     match |-> next]
          ELSE dispatch_loop_early(reg, vr, cls, mro, i + 1, next)

\* the loop from the top of iteration i to the next yield or raise
RECURSIVE dispatch_loop(_, _, _, _, _, _)
dispatch_loop(reg, vr, cls, mro, i, match) ==
  IF i > Len(mro)
  THEN [kind |-> "yield", func |-> get(reg, match), i |-> i, match |-> match]
  ELSE IF match # None
  THEN IF ambiguous(reg, vr, cls, match, mro[i])
       THEN [kind |-> "raise", typ |-> mro[i], i |-> i, match |-> match]
       ELSE [kind |-> "yield", func |-> get(reg, match), i |-> i, match |-> match]
  ELSE dispatch_loop(reg, vr, cls, mro, i + 1,
                     IF contains(reg, mro[i]) THEN mro[i] ELSE match)

\* dispatch_resume that ends one iteration early, without the last yield
dispatch_resume_short(reg, vr, cls, mro, i, match) ==
  IF i >= Len(mro)
  THEN [kind |-> "stop", i |-> i, match |-> match]
  ELSE dispatch_loop(reg, vr, cls, mro, i + 1,
                     IF contains(reg, mro[i]) THEN mro[i] ELSE match)

\* the generator resumed after the yield of iteration i
dispatch_resume(reg, vr, cls, mro, i, match) ==
  IF i > Len(mro)
  THEN [kind |-> "stop", i |-> i, match |-> match]
  ELSE dispatch_loop(reg, vr, cls, mro, i + 1,
                     IF contains(reg, mro[i]) THEN mro[i] ELSE match)

\* dispatch_start with a linearization from before the declarations
dispatch_start_stale(reg, vr, cls) ==
  LET mro == Linearization[cls][keys(reg)][{}]
  IN [mro |-> mro,
      ran |-> IF mro = <<Inconsistent>>
              THEN [kind |-> "inconsistent", i |-> 0, match |-> None]
              ELSE dispatch_loop(reg, vr, cls, mro, 1, None)]

\* the generator started: next() on a new generator
dispatch_start(reg, vr, cls) ==
  LET mro == Linearization[cls][keys(reg)][vr]
  IN [mro |-> mro,
      ran |-> IF mro = <<Inconsistent>>
              THEN [kind |-> "inconsistent", i |-> 0, match |-> None]
              ELSE dispatch_loop(reg, vr, cls, mro, 1, None)]

(***************************************************************************)
(* Values: implementations, objects, what a call returns or raises.        *)
(***************************************************************************)
\* the implementations written for cls; DefaultFunc is the decorated function
Funcs(cls) == {<<"g", cls>>, <<"h", cls>>}

DefaultFunc == <<"g", Root>>

\* self.funcname
funcname == "g"

\* an instance of cls; NoObj where there is no object
Instance(cls) == [class |-> cls]

NoObj == [class |-> None]

\* the instance a generic method is looked up on
Owner == Instance("Owner")

\* an annotation that is no class, such as typing.Iterable[str]
GenericAlias == "Iterable[str]"

\* the sentinel an implementation returns to decline
Pass == [kind |-> "Pass"]

\* what an implementation returns when it does not return Pass
Value(func, self, arg) == [kind |-> "value", by |-> func, self |-> self, arg |-> arg]

\* raise TypeError(f"{self.funcname} requires at least 1 positional argument")
InvalidCall ==
  [kind |-> "TypeError",
   msg |-> <<funcname, "requires at least 1 positional argument">>]

\* args[0] of an empty tuple
IndexError == [kind |-> "IndexError", msg |-> <<"tuple index out of range">>]

\* raise AllotError(args[0], self)
AllotError(obj) == [kind |-> "AllotError", obj |-> obj, allot |-> funcname]

\* raise RuntimeError(f"Ambiguous dispatch: {match} or {typ}")
AmbiguousDispatch(match, typ) ==
  [kind |-> "RuntimeError", msg |-> <<"Ambiguous dispatch", match, typ>>]

\* RuntimeError("Inconsistent hierarchy") of _c3_merge
InconsistentHierarchy == [kind |-> "RuntimeError", msg |-> <<Inconsistent>>]

\* the TypeError of register
InvalidRegistration(arg) ==
  [kind |-> "TypeError",
   msg |-> <<"Invalid first argument to register()", arg>>]

\* the failed assertion of register
InvalidAnnotation(argname, cls) ==
  [kind |-> "AssertionError", msg |-> <<"Invalid annotation for", argname, cls>>]

\* no invocation
NoInv ==
  [via |-> "none", self |-> NoObj, obj |-> NoObj, mro |-> <<>>, i |-> 0,
   match |-> None, func |-> NoFunc]

(***************************************************************************)
(* allot.__init__: the registry holds the decorated function for object.   *)
(***************************************************************************)
Init ==
  /\ registry = <<[key |-> Root, func |-> DefaultFunc]>>
  /\ virt = {}
  /\ pc = "idle"
  /\ inv = NoInv
  /\ invoked = <<>>
  /\ outcome = [kind |-> "none"]

(***************************************************************************)
(* The invocation, allot.__call__ and the _method of allot_method.__get__. *)
(***************************************************************************)
\* the first statement of the call with no positional argument
no_args(via) == IF via = "call" THEN InvalidCall ELSE IndexError

\* the for loop over the generator, after the generator ran on to r
loop(r, via, self, obj, mro) ==
  /\ inv' = [via |-> via, self |-> self, obj |-> obj, mro |-> mro, i |-> r.i,
             match |-> r.match,
             func |-> IF r.kind = "yield" THEN r.func ELSE NoFunc]
  /\ pc' = IF r.kind = "yield" THEN "yielded" ELSE "idle"
  /\ outcome' = CASE r.kind = "yield" -> [kind |-> "running"]
                  [] r.kind = "raise" -> AmbiguousDispatch(r.match, r.typ)
                  [] r.kind = "inconsistent" -> InconsistentHierarchy
                  [] r.kind = "stop" -> AllotError(obj)

\* g() or C().m(): no positional argument
CallNoArgs(via) ==
  /\ pc = "idle"
  /\ outcome' = no_args(via)
  /\ inv' = NoInv
  /\ invoked' = <<>>
  /\ UNCHANGED <<registry, virt, pc>>

\* g(obj) or C().m(obj), up to the first implementation the generator yields
Call(via, obj) ==
  /\ pc = "idle"
  /\ invoked' = <<>>
  /\ LET gen == dispatch_start(registry, virt, obj.class)
     IN loop(gen.ran, via, IF via = "method" THEN Owner ELSE NoObj, obj, gen.mro)
  /\ UNCHANGED <<registry, virt>>

\* not_pass that takes every result for Pass
not_pass_never(rv) == FALSE

\* rv is not Pass
not_pass(rv) == rv # Pass

\* the yielded implementation is called; if it declines the generator runs on
Invoke(declines) ==
  /\ pc = "yielded"
  /\ LET rv == IF declines THEN Pass ELSE Value(inv.func, inv.self, inv.obj)
     IN /\ invoked' = Append(invoked,
                             [func |-> inv.func, self |-> inv.self,
                              arg |-> inv.obj, rv |-> rv])
        /\ IF not_pass(rv)
           THEN /\ pc' = "idle"
                /\ outcome' = [kind |-> "return", value |-> rv]
                /\ inv' = inv
           ELSE loop(dispatch_resume(registry, virt, inv.obj.class, inv.mro,
                                     inv.i, inv.match),
                     inv.via, inv.self, inv.obj, inv.mro)
  /\ UNCHANGED <<registry, virt>>

(***************************************************************************)
(* allot.register.                                                         *)
(***************************************************************************)
\* the values register is called with as its only argument: a class, 42, a
\* function without annotations, a function whose first annotation is hint
HintTypes == {"P", "V1"}

Hints == {[name |-> n, hint |-> h] :
            n \in {"arg", "return"}, h \in HintTypes \cup {GenericAlias}}

RegArgs ==
  {[kind |-> "type", cls |-> cls] : cls \in HintTypes}
  \cup {[kind |-> "value", value |-> 42, hints |-> <<>>]}
  \cup {[kind |-> "function", func |-> <<"g", None>>, hints |-> <<>>]}
  \cup {[kind |-> "function", func |-> <<"g", h.hint>>, hints |-> <<h>>] :
          h \in Hints}

\* register(cls, func): what it leaves in the registry and what it returns
register2(reg, cls, func) ==
  [registry |-> setitem(reg, cls, func),
   outcome |-> [kind |-> "registered", func |-> func]]

\* register(arg)
register1(reg, arg) ==
  IF arg.kind = "type"
  THEN [registry |-> reg, outcome |-> [kind |-> "decorator"]]
  ELSE IF arg.hints = <<>>
  THEN [registry |-> reg, outcome |-> InvalidRegistration(arg)]
  ELSE LET argname == arg.hints[1].name
           cls == arg.hints[1].hint
       IN IF cls \notin Types
          THEN [registry |-> reg, outcome |-> InvalidAnnotation(argname, cls)]
          ELSE register2(reg, cls, arg.func)

\* the registry stays within the bounds
Bounded(reg) ==
  /\ Len(reg) <= MaxKeys + 1
  /\ Cardinality({i \in 1..Len(reg) : reg[i].func[1] = "h"}) <= MaxAlt

Register(cls, func) ==
  /\ pc = "idle"
  /\ LET r == register2(registry, cls, func)
     IN /\ Bounded(r.registry)
        /\ registry' = r.registry
        /\ outcome' = r.outcome
  /\ inv' = NoInv
  /\ invoked' = <<>>
  /\ UNCHANGED <<virt, pc>>

RegisterOne(arg) ==
  /\ pc = "idle"
  /\ LET r == register1(registry, arg)
     IN /\ Bounded(r.registry)
        /\ registry' = r.registry
        /\ outcome' = r.outcome
  /\ inv' = NoInv
  /\ invoked' = <<>>
  /\ UNCHANGED <<virt, pc>>

(***************************************************************************)
(* ABCMeta.register: abc.register(cls) declares cls a virtual subclass.    *)
(***************************************************************************)
DeclareVirtual(abc, cls) ==
  /\ pc = "idle"
  /\ Cardinality(virt) < MaxVirt
  /\ ~issubclass(virt, cls, abc)
  /\ ~issubclass(virt, abc, cls)
  /\ virt' = virt \cup {<<abc, cls>>}
  /\ outcome' = [kind |-> "declared"]
  /\ inv' = NoInv
  /\ invoked' = <<>>
  /\ UNCHANGED <<registry, pc>>

Next ==
  \/ \E via \in {"call", "method"} : CallNoArgs(via)
  \/ \E cls \in Receivers : Call("call", Instance(cls))
  \/ \E cls \in MethodReceivers : Call("method", Instance(cls))
  \/ \E declines \in BOOLEAN : Invoke(declines)
  \/ \E cls \in RegTypes : \E func \in Funcs(cls) : Register(cls, func)
  \/ \E arg \in RegArgs : RegisterOne(arg)
  \/ \E pair \in VirtPairs : DeclareVirtual(pair[1], pair[2])

Spec == Init /\ [][Next]_vars

(***************************************************************************)
(* Registration while an invocation is in progress: allot.register called   *)
(* by the implementation that is running, or by another thread, while the   *)
(* generator of allot.dispatch is suspended at a yield.  The generator      *)
(* keeps its mro, its position and its match; the registry is the object    *)
(* it will read when it runs on.                                            *)
(***************************************************************************)
RegisterDuring(cls, func) ==
  /\ pc = "yielded"
  /\ LET r == register2(registry, cls, func)
     IN /\ Bounded(r.registry)
        /\ registry' = r.registry
  /\ UNCHANGED <<virt, pc, inv, invoked, outcome>>

\* the function registered for cls while an invocation is in progress
DuringFunc(cls) == <<"g", cls>>

NextInterleaved ==
  \/ Next
  \/ \E cls \in RegTypes : RegisterDuring(cls, DuringFunc(cls))

SpecInterleaved == Init /\ [][NextInterleaved]_vars

(***************************************************************************)
(* The properties.                                                         *)
(***************************************************************************)
\* an invocation was started and no registration or declaration followed
Invoking == inv.via # "none"

\* the invocation has returned or raised
Finished == Invoking /\ pc = "idle"

\* the candidate order of cls: its linearization restricted to the keys
CandidateOrder(reg, vr, cls) ==
  SelectSeq(Linearization[cls][keys(reg)][vr], LAMBDA t : contains(reg, t))

\* the candidate order of the invocation, resolved against the current state
Order == CandidateOrder(registry, virt, inv.obj.class)

\* the implementation registered for typ
Impl(typ) == get(registry, typ)

\* the calls of the invocation that called the implementation of typ
CallsOf(typ) == {m \in 1..Len(invoked) : invoked[m].func = Impl(typ)}

\* typ is a true ancestor of cls
TrueAncestor(typ, cls) == InSeq(typ, Mro(cls))

\* C1: an invocation that returns returns the value of the first candidate, in
\* candidate order, that did not return Pass: every candidate before it was
\* called with the same arguments and returned Pass, none after it was called.
DeclinePropagation ==
  (Finished /\ outcome.kind = "return") =>
    LET n == Len(invoked)
        at == {j \in 1..Len(Order) : n >= 1 /\ Impl(Order[j]) = invoked[n].func}
    IN /\ at # {}
       /\ outcome.value = invoked[n].rv
       /\ outcome.value # Pass
       /\ \A k \in at :
            /\ outcome.value.by = Impl(Order[k])
            /\ \A j \in 1..(k - 1) :
                 \E m \in CallsOf(Order[j]) : m < n /\ invoked[m].rv = Pass
            /\ \A j \in (k + 1)..Len(Order) : CallsOf(Order[j]) = {}
            /\ \A m \in 1..(n - 1) :
                 /\ invoked[m].rv = Pass
                 /\ \E j \in 1..k : m \in CallsOf(Order[j])
       /\ \A m \in 1..n : invoked[m].arg = inv.obj /\ invoked[m].self = inv.self

\* C1 witness: the first two candidates declined and the value of the third
\* was returned
DeclinePropagationReached ==
  /\ Finished
  /\ outcome.kind = "return"
  /\ Len(Order) >= 3
  /\ \E m \in CallsOf(Order[1]) : invoked[m].rv = Pass
  /\ \E m \in CallsOf(Order[2]) : invoked[m].rv = Pass
  /\ outcome.value.by = Impl(Order[3])

\* every candidate was called and returned Pass, the root implementation last
AllDeclined ==
  /\ invoked # <<>>
  /\ \A m \in 1..Len(invoked) : invoked[m].rv = Pass
  /\ \A j \in 1..Len(Order) : CallsOf(Order[j]) # {}
  /\ invoked[Len(invoked)].func = Impl(Root)

\* C2: an invocation, direct or through a bound method, raises AllotError if
\* and only if every candidate of the resolved order, the root last, was called
\* and returned Pass; the error carries the first argument and the function.
Exhaustion ==
  Finished =>
    /\ outcome.kind = "AllotError" <=> AllDeclined
    /\ outcome.kind = "AllotError" =>
         outcome.obj = inv.obj /\ outcome.allot = funcname

\* C2 witness: a bound method raised AllotError after two candidates declined
ExhaustionReached ==
  /\ Finished
  /\ inv.via = "method"
  /\ outcome.kind = "AllotError"
  /\ Len(Order) >= 2

\* C3: with implementations for A and for a true subtype B of A, and a receiver
\* whose type is B or a true subtype of B, the implementation of A is called
\* only after the implementation of B was called and returned Pass.
TrueAncestrySpecificity ==
  Invoking =>
    \A A, B \in Types :
      ( /\ A # B
        /\ contains(registry, A)
        /\ contains(registry, B)
        /\ TrueAncestor(A, B)
        /\ TrueAncestor(B, inv.obj.class) ) =>
      \A m \in CallsOf(A) :
        \E l \in CallsOf(B) : l < m /\ invoked[l].rv = Pass

\* C3 witness: B declined and then A, which is not the root, was called
TrueAncestrySpecificityReached ==
  /\ Invoking
  /\ \E A, B \in Types \ {Root} :
       /\ A # B
       /\ contains(registry, A)
       /\ contains(registry, B)
       /\ TrueAncestor(A, B)
       /\ TrueAncestor(B, inv.obj.class)
       /\ CallsOf(A) # {}

\* the closest true ancestor of cls that an implementation is registered for
ClosestTrue(cls) ==
  Mro(cls)[MinOf({i \in 1..Len(Mro(cls)) : contains(registry, Mro(cls)[i])})]

\* typ is registered and a virtual, not a true, ancestor of cls
VirtualAncestor(typ, cls) ==
  /\ contains(registry, typ)
  /\ ~TrueAncestor(typ, cls)
  /\ issubclass(virt, cls, typ)

\* neither type is a subtype of the other
Unrelated(a, b) == a # b /\ ~issubclass(virt, a, b) /\ ~issubclass(virt, b, a)

\* the pairs of unrelated registered virtual ancestors of cls
AmbiguousPairs(cls) ==
  {pair \in Types \X Types :
     /\ VirtualAncestor(pair[1], cls)
     /\ VirtualAncestor(pair[2], cls)
     /\ Unrelated(pair[1], pair[2])}

\* the invocation raised AmbiguousDispatch
RaisedAmbiguous ==
  /\ Finished
  /\ outcome.kind = "RuntimeError"
  /\ outcome.msg[1] = "Ambiguous dispatch"

AmbiguityAlwaysReported ==
  (Finished /\ AmbiguousPairs(inv.obj.class) # {}) =>
    /\ RaisedAmbiguous
    /\ <<outcome.msg[2], outcome.msg[3]>> \in AmbiguousPairs(inv.obj.class)

\* the linearization of the receiver type against the current state
Lin == Linearization[inv.obj.class][keys(registry)][virt]

\* the places of the linearization where two unrelated registered virtual
\* ancestors of the receiver type stand side by side
Ties ==
  {i \in 1..(Len(Lin) - 1) :
     <<Lin[i], Lin[i + 1]>> \in AmbiguousPairs(inv.obj.class)}

\* the places of the candidate order where two unrelated virtual ancestors meet
OrderTies ==
  {j \in 1..(Len(Order) - 1) :
     <<Order[j], Order[j + 1]>> \in AmbiguousPairs(inv.obj.class)}

\* C5 amended: when two unrelated registered virtual ancestors V1 and V2 of the
\* receiver type stand side by side in its linearization, the invocation calls
\* neither V1's implementation, nor V2's, nor a later one, and does not end
\* exhausted: it raises AmbiguousDispatch naming two unrelated registered virtual
\* ancestors (V1 and V2, when no two meet earlier in the candidate order), unless
\* the implementation of a candidate before V1 returned a result that is not
\* Pass, which is returned.
AmbiguityReported ==
  (Invoking /\ Ties # {}) =>
    LET i == MinOf(Ties)
    IN /\ \A k \in i..Len(Lin) :
            contains(registry, Lin[k]) => CallsOf(Lin[k]) = {}
       /\ Finished =>
            \/ /\ RaisedAmbiguous
               /\ <<outcome.msg[2], outcome.msg[3]>>
                    \in AmbiguousPairs(inv.obj.class)
               /\ Order[MinOf(OrderTies)] = Lin[i] =>
                    outcome.msg = <<"Ambiguous dispatch", Lin[i], Lin[i + 1]>>
            \/ /\ outcome.kind = "return"
               /\ \E k \in 1..(i - 1) :
                    /\ contains(registry, Lin[k])
                    /\ outcome.value.by = Impl(Lin[k])

\* C5 witness: AmbiguousDispatch was raised for two ancestors side by side,
\* after a candidate before them returned Pass
AmbiguityReportedReached == RaisedAmbiguous /\ Ties # {} /\ invoked # <<>>

\* C6: with two unrelated virtual ancestors V1 and V2 of the receiver type
\* registered, and an implementation registered for a true subtype D of both of
\* which the receiver type is a subtype, no invocation raises AmbiguousDispatch,
\* whichever implementations return Pass.
CommonDescendantResolves ==
  Finished =>
    \A pair \in AmbiguousPairs(inv.obj.class) : \A D \in Types :
      ( /\ contains(registry, D)
        /\ D \notin {pair[1], pair[2]}
        /\ TrueAncestor(pair[1], D)
        /\ TrueAncestor(pair[2], D)
        /\ issubclass(virt, inv.obj.class, D) ) => ~RaisedAmbiguous

\* C7: AmbiguousDispatch names two registered types outside the true ancestor
\* chain of the receiver type: next to a true ancestor dispatch goes on.
AmbiguityOnlyVirtual ==
  RaisedAmbiguous =>
    /\ VirtualAncestor(outcome.msg[2], inv.obj.class)
    /\ VirtualAncestor(outcome.msg[3], inv.obj.class)

\* C7 witness: after a virtual ancestor declined, the true ancestor that
\* follows it in the candidate order was called
AmbiguityOnlyVirtualReached ==
  /\ Invoking
  /\ \E j \in 1..(Len(Order) - 1) :
       /\ VirtualAncestor(Order[j], inv.obj.class)
       /\ Order[j + 1] # Root
       /\ TrueAncestor(Order[j + 1], inv.obj.class)
       /\ CallsOf(Order[j + 1]) # {}

\* s without the elements that repeat the element before them
RECURSIVE Dedup(_)
Dedup(s) ==
  IF Len(s) <= 1 THEN s
  ELSE IF s[1] = s[2] THEN Dedup(Tail(s))
  ELSE <<s[1]>> \o Dedup(Tail(s))

\* the implementations the invocation has called or is about to call
Walked ==
  Dedup([m \in 1..Len(invoked) |-> invoked[m].func]
        \o (IF pc = "yielded" THEN <<inv.func>> ELSE <<>>))

\* C8: an invocation walks the candidate sequence resolved against the current
\* registry and the current declarations, whatever invocations, registrations
\* (the last one for a key wins) and declarations came before.
NoStaleResolution ==
  /\ Invoking =>
       /\ inv.mro = Linearization[inv.obj.class][keys(registry)][virt]
       /\ Len(Walked) <= Len(Order)
       /\ \A j \in 1..Len(Walked) : Walked[j] = Impl(Order[j])
  /\ outcome.kind = "registered" => Impl(outcome.func[2]) = outcome.func

\* C8 witness: after the root implementation was replaced and a declaration
\* made, a virtual ancestor declined and the new root implementation was called
NoStaleResolutionReached ==
  /\ Finished
  /\ VirtualAncestor(Order[1], inv.obj.class)
  /\ Impl(Root) = <<"h", Root>>
  /\ CallsOf(Root) # {}

\* C9: a call with no positional argument, direct or through a bound method,
\* raises the TypeError that names the function, calls no implementation and
\* leaves the registry as it is.
InvalidCallReported ==
  [][\A via \in {"call", "method"} :
       CallNoArgs(via) =>
         outcome' = InvalidCall /\ invoked' = <<>> /\ registry' = registry]_vars

\* arg is no class and has no parameter annotation that is a class
InvalidRegArg(arg) ==
  /\ arg.kind # "type"
  /\ \/ \A n \in 1..Len(arg.hints) : arg.hints[n].name = "return"
     \/ arg.hints[1].hint \notin Types

\* C10: register(arg) with such an arg raises an error that reports the value
\* and leaves the registry as it is.
InvalidRegistrationRejected ==
  [][\A arg \in RegArgs :
       (InvalidRegArg(arg) /\ RegisterOne(arg)) =>
         /\ registry' = registry
         /\ outcome'.kind \in {"TypeError", "AssertionError"}
         /\ outcome'.kind = "TypeError" => outcome'.msg[2] = arg
         /\ outcome'.kind = "AssertionError" =>
              outcome'.msg[3] = arg.hints[1].hint]_vars

\* the implementations the generator has produced, one entry per yield
Produced ==
  [m \in 1..Len(invoked) |-> invoked[m].func]
    \o (IF pc = "yielded" THEN <<inv.func>> ELSE <<>>)

\* C11: the implementations dispatch produces for an invocation are those of
\* the linearization restricted to the registry keys, each once and in that
\* order, so that no implementation is called twice in one invocation.
EachCandidateOnce ==
  Invoking =>
    /\ Len(Produced) <= Len(Order)
    /\ \A j \in 1..Len(Produced) : Produced[j] = Impl(Order[j])
    /\ \A m, n \in 1..Len(invoked) :
         m # n => invoked[m].func # invoked[n].func

\* C12: an invocation that raises AmbiguousDispatch has called no
\* implementation: the ambiguity is found before the candidates are iterated.
AmbiguityBeforeInvocation == RaisedAmbiguous => invoked = <<>>

\* C13: when the generator of an invocation runs on after an implementation
\* returned Pass and reads the registry, the order it walks is the order
\* resolved against the registry it reads, and the next implementation it
\* produces is that of the candidate that follows the current one in that
\* order, whatever was registered since the invocation began.
ConsistentUnderInterleaving ==
  [][(Invoke(TRUE) /\ inv.i <= Len(inv.mro)) =>
       /\ inv.mro = Lin
       /\ (pc' = "yielded" /\ inv'.match # inv.match) =>
            /\ inv'.func = Impl(inv'.match)
            /\ \E j \in 1..(Len(Order) - 1) :
                 Order[j] = inv.match /\ Order[j + 1] = inv'.match]_vars

====
